---- MODULE Spec2Model ----
(***************************************************************************)
(* Model of src/src/cli/prove_chunk_entropy.py: the encoder                *)
(* chunk_to_density and the coroutine main() with its entropy task.        *)
(*                                                                         *)
(* Numbers.  The matrices of chunk_to_density hold float64 values.  They   *)
(* are modelled in exact fixed-point arithmetic with 1.0 == Unit, so that  *)
(* the perturbation 1e-6 is the integer Eps; the result `matrix / norm` is *)
(* kept as the undivided entries together with the divisor `norm` (each    *)
(* entry of the result is the rational cells[p] / norm).  Rounding of      *)
(* float64 is not modelled.                                                *)
(*                                                                         *)
(* Arrays.  An array is kept sparse: `cells` maps the positions that were  *)
(* assigned to their values, every other position holds 0.0.  A byte       *)
(* string is [zeros |-> z, data |-> d]: z bytes 0x00 followed by the       *)
(* bytes of the sequence d; the run of zeros lets a chunk of 10,000,000    *)
(* bytes be represented.                                                    *)
(***************************************************************************)
EXTENDS Integers, Sequences, FiniteSets, TLC

\* ------------------------------------------------------------------ bounds
\* longest explicit part of argv[1], in characters
MaxB64Len == 4
\* longest chunk given to chunk_to_density with arbitrary bytes
MaxLen == 5
\* longest chunk made of one repeated byte
MaxUniformLen == 16
\* longest explicit part of an argv[1] that starts with the long run of "AAAA"
MaxBulkLen == 4

\* ------------------------------------------------------- program constants
\* the size cap of line 54
MaxChunkBytes == 10000000
\* fixed-point scale: the float 1.0
Unit == 1000000
\* the perturbation 1e-6 of line 32, in fixed point
Eps == 1
\* the threshold 1e-10 of line 30 rounded up to the fixed-point grid: every
\* value v of the grid has  v < 1e-10  iff  v < TraceFloor
TraceFloor == 1
\* len(sys.argv) that main() accepts (line 38)
ExpectedArgc == 3

\* ------------------------------------------------------------ base64 input
\* characters of argv[1]: 0..63 are the sextets of the base64 alphabet,
\* Pad is '=', Junk an ASCII character outside the alphabet, NonAscii a
\* character that str.encode('ascii') rejects
Pad == 64
Junk == 65
NonAscii == 66

\* the sextets used in the explicit part of the input ('A', 'B', '/')
Sextets == {0, 1, 63}
B64Chars == Sextets \cup {Pad, Junk, NonAscii}

RECURSIVE SeqsUpTo(_, _)
SeqsUpTo(S, n) ==
    IF n = 0 THEN {<<>>}
    ELSE LET shorter == SeqsUpTo(S, n - 1)
         IN  shorter \cup {Append(s, x) : s \in {t \in shorter : Len(t) = n - 1}, x \in S}

\* binascii.a2b_base64(s, strict_mode=False) from character i on
RECURSIVE a2b_base64(_, _, _, _, _, _)
a2b_base64(s, i, quad_pos, leftchar, pads, out) ==
    IF i > Len(s)
    THEN IF quad_pos # 0 THEN [ok |-> FALSE, bytes |-> <<>>]
                         ELSE [ok |-> TRUE, bytes |-> out]
    ELSE LET ch == s[i] IN
         IF ch = Pad
         THEN IF quad_pos >= 2 /\ quad_pos + pads + 1 >= 4
              THEN [ok |-> TRUE, bytes |-> out]
              ELSE a2b_base64(s, i + 1, quad_pos, leftchar,
                              IF quad_pos >= 2 THEN pads + 1 ELSE pads, out)
         ELSE IF ch >= 64
         THEN a2b_base64(s, i + 1, quad_pos, leftchar, pads, out)
         ELSE CASE quad_pos = 0 ->
                     a2b_base64(s, i + 1, 1, ch, 0, out)
                [] quad_pos = 1 ->
                     a2b_base64(s, i + 1, 2, ch % 16, 0,
                                Append(out, leftchar * 4 + ch \div 16))
                [] quad_pos = 2 ->
                     a2b_base64(s, i + 1, 3, ch % 4, 0,
                                Append(out, leftchar * 16 + ch \div 4))
                [] quad_pos = 3 ->
                     a2b_base64(s, i + 1, 0, 0, 0,
                                Append(out, leftchar * 64 + ch))

\* base64.b64decode(chunk_b64): ASCII check, then the lenient decoder.  Each
\* leading "AAAA" decodes to three bytes 0x00 and leaves the decoder in its
\* initial state.
b64decode(s) ==
    IF \E i \in 1..Len(s.rest) : s.rest[i] = NonAscii
    THEN [ok |-> FALSE, bytes |-> [zeros |-> 0, data |-> <<>>]]
    ELSE LET r == a2b_base64(s.rest, 1, 0, 0, 0, <<>>)
         IN  [ok |-> r.ok,
              bytes |-> [zeros |-> IF r.ok THEN 3 * s.lead ELSE 0, data |-> r.bytes]]

\* len(chunk_bytes)
BytesLen(b) == b.zeros + Len(b.data)

\* chunk_bytes[i], i counted from 0
ByteAt(b, i) == IF i < b.zeros THEN 0 ELSE b.data[i - b.zeros + 1]

\* ---------------------------------------------------------- chunk_to_density
\* int(np.ceil(np.sqrt(n))): the least s with s * s >= n
RECURSIVE CeilSqrtFrom(_, _, _)
CeilSqrtFrom(n, lo, hi) ==
    IF lo >= hi THEN lo
    ELSE LET mid == (lo + hi) \div 2
         IN  IF mid * mid >= n THEN CeilSqrtFrom(n, lo, mid)
                               ELSE CeilSqrtFrom(n, mid + 1, hi)

\* int(np.sqrt(n)): the size rounded down instead of up
FloorSqrt(n) ==
    LET up == CeilSqrtFrom(n, 0, IF n < 46340 THEN n ELSE 46340)
    IN  IF up * up = n THEN up ELSE up - 1

\* (the search stays below 46340, whose square still fits 32-bit integers)
CeilSqrt(n) == CeilSqrtFrom(n, 0, IF n < 46340 THEN n ELSE 46340)

\* np.zeros((size, size)): no position assigned yet
np_zeros(size) == [size |-> size, cells |-> [p \in {} |-> 0]]

\* matrix[r, c]
Entry(matrix, r, c) ==
    IF <<r, c>> \in DOMAIN matrix.cells THEN matrix.cells[<<r, c>>] ELSE 0

\* divmod(i, size)
DivMod(i, size) == <<i \div size, i % size>>

\* one pass of the loop body of lines 24-26 for byte i
PlaceByte(matrix, bytes, i) ==
    LET rc == DivMod(i, matrix.size) IN
    IF rc[1] < matrix.size /\ rc[2] < matrix.size
    THEN [matrix EXCEPT !.cells = (rc :> (ByteAt(bytes, i) * Unit)) @@ @]
    ELSE matrix

\* the loop of lines 23-26 for the bytes i..len-1.  The bytes of the leading
\* run of zeros store 0.0 into a matrix of zeros and are not iterated.
RECURSIVE FillFrom(_, _, _)
FillFrom(matrix, bytes, i) ==
    IF i >= BytesLen(bytes) THEN matrix
    ELSE FillFrom(PlaceByte(matrix, bytes, i), bytes, i + 1)

\* lines 15-26: the matrix before normalization
FillMatrix(bytes) ==
    FillFrom(np_zeros(CeilSqrt(BytesLen(bytes))), bytes, bytes.zeros)

\* np.trace(matrix): the sum of matrix[r, r] for r in lo..hi, summed by halves
RECURSIVE TraceRange(_, _, _)
TraceRange(matrix, lo, hi) ==
    IF lo > hi THEN 0
    ELSE IF lo = hi THEN Entry(matrix, lo, lo)
    ELSE LET mid == (lo + hi) \div 2
         IN  TraceRange(matrix, lo, mid) + TraceRange(matrix, mid + 1, hi)

\* np.sum(matrix): every entry instead of the diagonal
RECURSIVE SumCells(_, _)
SumCells(cells, S) ==
    IF S = {} THEN 0
    ELSE LET p == CHOOSE q \in S : TRUE
         IN  cells[p] + SumCells(cells, S \ {p})

np_sum(matrix) == SumCells(matrix.cells, DOMAIN matrix.cells)

np_trace(matrix) == TraceRange(matrix, 0, matrix.size - 1)

\* matrix += np.eye(size) * 1e-6
AddEye(matrix) ==
    LET diag == {<<r, r>> : r \in 0..(matrix.size - 1)}
    IN  [matrix EXCEPT !.cells =
            [p \in (DOMAIN matrix.cells) \cup diag |->
                Entry(matrix, p[1], p[2]) + (IF p[1] = p[2] THEN Eps ELSE 0)]]

\* the perturbed matrix divided by the trace taken before the perturbation
Normalize_StaleNorm(matrix) ==
    LET norm == np_trace(matrix) IN
    IF norm < TraceFloor
    THEN [size |-> matrix.size, cells |-> AddEye(matrix).cells, norm |-> norm]
    ELSE [size |-> matrix.size, cells |-> matrix.cells, norm |-> norm]

\* lines 29-35: the result is matrix / norm, kept as (cells, norm).  An
\* empty matrix (size 0) has no entry to divide, so norm = 0 raises nothing.
Normalize(matrix) ==
    LET norm == np_trace(matrix) IN
    IF norm < TraceFloor
    THEN LET shifted == AddEye(matrix)
         IN  [size |-> matrix.size, cells |-> shifted.cells, norm |-> np_trace(shifted)]
    ELSE [size |-> matrix.size, cells |-> matrix.cells, norm |-> norm]

chunk_to_density(chunk_bytes) == Normalize(FillMatrix(chunk_bytes))

\* density.flatten(): row-major, position (r, c) becomes r * size + c
flatten(density) ==
    [len |-> density.size * density.size,
     cells |-> [i \in {p[1] * density.size + p[2] : p \in DOMAIN density.cells} |->
                   density.cells[DivMod(i, density.size)]],
     norm |-> density.norm]

\* ----------------------------------------------------- values of the run
\* a Python name that is not bound yet / that is bound to v
None == [set |-> FALSE]
Some(v) == [set |-> TRUE, v |-> v]

\* a str is [lead |-> k, rest |-> r]: k copies of "AAAA" followed by the
\* characters r
Str(r) == [lead |-> 0, rest |-> r]

\* Values of sys.argv[1].  The long inputs decode to 9,999,999 bytes 0x00
\* followed by the bytes of `rest`, around the size cap.
ChunkInputs ==
    {Str(r) : r \in SeqsUpTo(B64Chars, MaxB64Len)}
    \cup {[lead |-> MaxChunkBytes \div 3, rest |-> r] : r \in SeqsUpTo({0, Pad}, MaxBulkLen)}

\* values of sys.argv[2]
ChunkIds == {Str(<<0>>), Str(<<1, Junk>>)}

\* sys.argv of the runs: the program name and one to three arguments
ProgName == Str(<<>>)
Argvs ==
    {<<ProgName>>, <<ProgName, Str(<<0, 0, Pad, Pad>>)>>,
     <<ProgName, Str(<<0, 0, Pad, Pad>>), Str(<<0>>), Str(<<1>>)>>}
    \cup {<<ProgName, b, id>> : b \in ChunkInputs, id \in ChunkIds}

\* What the library qzkp hands back.  Its code is not part of the program:
\* every call returns any of these values, or raises.
\* EntanglementEntropy.calculate_entropy: a float (fixed point), or an object
\* float() rejects
EntropyReturns ==
    {[kind |-> "float", val |-> 0], [kind |-> "float", val |-> 693147],
     [kind |-> "None", val |-> 0]}
\* prove_vector_knowledge: commitment bytes and a proof that json.dumps can
\* or cannot serialize
Commitments == {<<0>>, <<171, 205>>}
Proofs == {[serializable |-> TRUE, body |-> 1], [serializable |-> FALSE, body |-> 2]}

\* the lines written to stderr
UsageLine == <<"Usage: prove_chunk_entropy.py <chunk_base64> <chunk_id>">>
Base64Line == <<"Error: Invalid base64 encoding in chunk data">>
TooLargeLine == <<"Error: Chunk too large for processing">>
\* f"Error: {e}"
ErrorLine(e) == <<"Error: ", e>>

\* exceptions
SystemExit(code) == [type |-> "SystemExit", arg |-> code]
Exception(msg) == [type |-> "Exception", arg |-> msg]

\* bytes.hex()
HexDigits == <<"0", "1", "2", "3", "4", "5", "6", "7", "8", "9", "a", "b", "c", "d", "e", "f">>
RECURSIVE hex(_)
hex(b) ==
    IF b = <<>> THEN <<>>
    ELSE <<HexDigits[(Head(b) \div 16) + 1], HexDigits[(Head(b) % 16) + 1]>> \o hex(Tail(b))

\* json.dumps(result): the members in insertion order, each value encoded by
\* its JSON type
json_dumps(result) ==
    << <<"chunk_id", <<"string", result.chunk_id>> >>,
       <<"entropy", <<"number", result.entropy>> >>,
       <<"commitment", <<"string", result.commitment>> >>,
       <<"proof", <<"object", result.proof.body>> >> >>

\* -------------------------------------------------------------- the state
VARIABLES
    argv,          \* sys.argv
    pc,            \* where main() stands
    chunk_b64,     \* locals of main()
    chunk_id,
    chunk_bytes,
    matrix,        \* local of chunk_to_density, before normalization
    density,
    entropy_task,  \* the task of line 62
    vector,
    zkp,           \* the QuantumZKP object and the state of its coroutine
    commitment,
    proof,
    entropy,
    stdout,
    stderr,
    exit_code,     \* the exit status of the process, NoExit while it runs
    events         \* the stages of the run in the order they happened

vars == <<argv, pc, chunk_b64, chunk_id, chunk_bytes, matrix, density,
          entropy_task, vector, zkp, commitment, proof, entropy,
          stdout, stderr, exit_code, events>>

NoExit == -1

NoTask == [state |-> "none", arg |-> None, result |-> None, awaited |-> FALSE]
NoZkp == [state |-> "none", dimensions |-> 0]

Locals0 ==
    /\ chunk_b64 = None
    /\ chunk_id = None
    /\ chunk_bytes = None
    /\ matrix = None
    /\ density = None
    /\ entropy_task = NoTask
    /\ vector = None
    /\ zkp = NoZkp
    /\ commitment = None
    /\ proof = None
    /\ entropy = None
    /\ stdout = <<>>
    /\ stderr = <<>>
    /\ exit_code = NoExit
    /\ events = <<>>

\* asyncio.run(main()) is entered with some command line
Init ==
    /\ argv \in Argvs
    /\ pc = "args"
    /\ Locals0

\* ------------------------------------------------------------ leaving main
\* asyncio.run cancels the tasks that are still pending when main() is over
CancelPending(task) ==
    IF task.state = "pending" THEN [task EXCEPT !.state = "cancelled"] ELSE task

\* the process ends with status `code`
ProcessExit(code, task) ==
    /\ pc' = "exited"
    /\ exit_code' = code
    /\ entropy_task' = CancelPending(task)

\* a bare `except:` in place of `except Exception`
CatchesBaseException(exc) == TRUE

\* `except Exception` of line 82: SystemExit is not an Exception
OuterCatches(exc) == exc.type = "Exception"

\* exc is raised inside the try block of lines 45-84, `err` being stderr at
\* that moment
RaiseInTry(exc, err, task) ==
    IF OuterCatches(exc)
    THEN /\ stderr' = Append(err, ErrorLine(exc.arg))
         /\ ProcessExit(2, task)
    ELSE /\ stderr' = err
         /\ ProcessExit(exc.arg, task)

\* --------------------------------------------------------------- main()
\* lines 38-43
CheckArgs ==
    /\ pc = "args"
    /\ events' = Append(events, "args")
    /\ IF Len(argv) # ExpectedArgc
       THEN /\ stderr' = Append(stderr, UsageLine)
            /\ ProcessExit(1, entropy_task)
            /\ UNCHANGED <<chunk_b64, chunk_id>>
       ELSE /\ chunk_b64' = Some(argv[2])
            /\ chunk_id' = Some(argv[3])
            /\ pc' = "decode"
            /\ UNCHANGED <<stderr, exit_code, entropy_task>>
    /\ UNCHANGED <<argv, chunk_bytes, matrix, density, vector, zkp,
                   commitment, proof, entropy, stdout>>

\* lines 47-51
Decode ==
    /\ pc = "decode"
    /\ events' = Append(events, "decode")
    /\ LET r == b64decode(chunk_b64.v) IN
       IF r.ok
       THEN /\ chunk_bytes' = Some(r.bytes)
            /\ pc' = "size"
            /\ UNCHANGED <<stderr, exit_code, entropy_task>>
       ELSE /\ RaiseInTry(SystemExit(3), Append(stderr, Base64Line), entropy_task)
            /\ UNCHANGED chunk_bytes
    /\ UNCHANGED <<argv, chunk_b64, chunk_id, matrix, density, vector, zkp,
                   commitment, proof, entropy, stdout>>

\* the size is checked only after the density matrix has been built
CheckSize_AfterEncode ==
    /\ pc = "size"
    /\ events' = events \o <<"encode", "size">>
    /\ density' = Some(chunk_to_density(chunk_bytes.v))
    /\ IF BytesLen(chunk_bytes.v) > MaxChunkBytes
       THEN RaiseInTry(SystemExit(4), Append(stderr, TooLargeLine), entropy_task)
       ELSE /\ pc' = "encode"
            /\ UNCHANGED <<stderr, exit_code, entropy_task>>
    /\ UNCHANGED <<argv, chunk_b64, chunk_id, chunk_bytes, matrix,
                   vector, zkp, commitment, proof, entropy, stdout>>

\* lines 54-56
CheckSize ==
    /\ pc = "size"
    /\ events' = Append(events, "size")
    /\ IF BytesLen(chunk_bytes.v) > MaxChunkBytes
       THEN RaiseInTry(SystemExit(4), Append(stderr, TooLargeLine), entropy_task)
       ELSE /\ pc' = "encode"
            /\ UNCHANGED <<stderr, exit_code, entropy_task>>
    /\ UNCHANGED <<argv, chunk_b64, chunk_id, chunk_bytes, matrix, density,
                   vector, zkp, commitment, proof, entropy, stdout>>

\* line 59
Encode ==
    /\ pc = "encode"
    /\ events' = Append(events, "encode")
    /\ density' = Some(chunk_to_density(chunk_bytes.v))
    /\ pc' = "spawn"
    /\ UNCHANGED <<argv, chunk_b64, chunk_id, chunk_bytes, matrix, entropy_task,
                   vector, zkp, commitment, proof, entropy, stdout, stderr,
                   exit_code>>

\* line 59 when np.zeros cannot allocate the matrix (MemoryError)
EncodeRaise ==
    /\ pc = "encode"
    /\ events' = events \o <<"encode", "encode_raised">>
    /\ RaiseInTry(Exception("MemoryError"), stderr, entropy_task)
    /\ UNCHANGED <<argv, chunk_b64, chunk_id, chunk_bytes, matrix, density,
                   vector, zkp, commitment, proof, entropy, stdout>>

\* line 62: the task is scheduled, its body has not run
CreateTask ==
    /\ pc = "spawn"
    /\ events' = Append(events, "create_task")
    /\ entropy_task' = [state |-> "pending", arg |-> density, result |-> None,
                        awaited |-> FALSE]
    /\ pc' = "prove"
    /\ UNCHANGED <<argv, chunk_b64, chunk_id, chunk_bytes, matrix, density,
                   vector, zkp, commitment, proof, entropy, stdout, stderr,
                   exit_code>>

\* lines 65-67: flatten, build the prover, enter prove_vector_knowledge
ProveStart ==
    /\ pc = "prove"
    /\ events' = Append(events, "prove")
    /\ vector' = Some(flatten(density.v))
    /\ zkp' = [state |-> "running", dimensions |-> flatten(density.v).len]
    /\ pc' = "proving"
    /\ UNCHANGED <<argv, chunk_b64, chunk_id, chunk_bytes, matrix, density,
                   entropy_task, commitment, proof, entropy, stdout, stderr,
                   exit_code>>

\* line 67: the coroutine awaits something that is not ready and main() is
\* suspended.  Once the entropy task has run no other task exists, so that
\* later suspensions change nothing.
ProveSuspend ==
    /\ pc = "proving"
    /\ entropy_task.state = "pending"
    /\ events' = Append(events, "prove_suspended")
    /\ zkp' = [zkp EXCEPT !.state = "suspended"]
    /\ pc' = "prove_suspended"
    /\ UNCHANGED <<argv, chunk_b64, chunk_id, chunk_bytes, matrix, density,
                   entropy_task, vector, commitment, proof, entropy, stdout,
                   stderr, exit_code>>

\* line 67: the event loop resumes the coroutine; the entropy task, which was
\* scheduled first, has run by then
ProveResume ==
    /\ pc = "prove_suspended"
    /\ entropy_task.state # "pending"
    /\ events' = Append(events, "prove_resumed")
    /\ zkp' = [zkp EXCEPT !.state = "running"]
    /\ pc' = "proving"
    /\ UNCHANGED <<argv, chunk_b64, chunk_id, chunk_bytes, matrix, density,
                   entropy_task, vector, commitment, proof, entropy, stdout,
                   stderr, exit_code>>

\* line 67: prove_vector_knowledge returns (commitment, proof)
ProveReturn ==
    /\ pc = "proving"
    /\ events' = Append(events, "proof_done")
    /\ \E c \in Commitments, p \in Proofs :
          /\ commitment' = Some(c)
          /\ proof' = Some(p)
    /\ zkp' = [zkp EXCEPT !.state = "done"]
    /\ pc' = "await"
    /\ UNCHANGED <<argv, chunk_b64, chunk_id, chunk_bytes, matrix, density,
                   entropy_task, vector, entropy, stdout, stderr, exit_code>>

\* lines 66-67: the constructor or prove_vector_knowledge raises
ProveRaise ==
    /\ pc = "proving"
    /\ events' = Append(events, "proof_raised")
    /\ zkp' = [zkp EXCEPT !.state = "failed"]
    /\ RaiseInTry(Exception("proof failure"), stderr, entropy_task)
    /\ UNCHANGED <<argv, chunk_b64, chunk_id, chunk_bytes, matrix, density,
                   vector, commitment, proof, entropy, stdout>>

\* main() is suspended and the event loop can run the entropy task
MainSuspended == pc = "prove_suspended" \/ pc = "await"

\* lines 86-89: the body of the entropy task returns
EntropyReturn ==
    /\ MainSuspended
    /\ entropy_task.state = "pending"
    /\ events' = Append(events, "entropy_done")
    /\ \E e \in EntropyReturns :
          entropy_task' = [entropy_task EXCEPT !.state = "done", !.result = Some(e)]
    /\ UNCHANGED <<argv, pc, chunk_b64, chunk_id, chunk_bytes, matrix, density,
                   vector, zkp, commitment, proof, entropy, stdout, stderr,
                   exit_code>>

\* lines 86-89: the body of the entropy task raises; the task keeps the
\* exception
EntropyRaise ==
    /\ MainSuspended
    /\ entropy_task.state = "pending"
    /\ events' = Append(events, "entropy_raised")
    /\ entropy_task' = [entropy_task EXCEPT !.state = "failed",
                                            !.result = Some("entropy failure")]
    /\ UNCHANGED <<argv, pc, chunk_b64, chunk_id, chunk_bytes, matrix, density,
                   vector, zkp, commitment, proof, entropy, stdout, stderr,
                   exit_code>>

\* main() goes on without the result of a task that has not run yet
AwaitEntropy_NoJoin ==
    /\ pc = "await"
    /\ events' = Append(events, "await")
    /\ LET task == [entropy_task EXCEPT !.awaited = (entropy_task.state # "pending")] IN
       IF entropy_task.state = "failed"
       THEN /\ RaiseInTry(Exception(entropy_task.result.v), stderr, task)
            /\ UNCHANGED entropy
       ELSE /\ entropy' = IF entropy_task.state = "done" THEN entropy_task.result
                          ELSE Some([kind |-> "float", val |-> 0])
            /\ entropy_task' = task
            /\ pc' = "emit"
            /\ UNCHANGED <<stderr, exit_code>>
    /\ UNCHANGED <<argv, chunk_b64, chunk_id, chunk_bytes, matrix, density,
                   vector, zkp, commitment, proof, stdout>>

\* line 70: the task is over, `await` hands out its result or re-raises
AwaitEntropy ==
    /\ pc = "await"
    /\ entropy_task.state \in {"done", "failed"}
    /\ events' = Append(events, "await")
    /\ LET task == [entropy_task EXCEPT !.awaited = TRUE] IN
       IF entropy_task.state = "done"
       THEN /\ entropy' = entropy_task.result
            /\ entropy_task' = task
            /\ pc' = "emit"
            /\ UNCHANGED <<stderr, exit_code>>
       ELSE /\ RaiseInTry(Exception(entropy_task.result.v), stderr, task)
            /\ UNCHANGED entropy
    /\ UNCHANGED <<argv, chunk_b64, chunk_id, chunk_bytes, matrix, density,
                   vector, zkp, commitment, proof, stdout>>

\* float(entropy) of line 75 and json.dumps of line 80 succeed
CanSerialize == entropy.v.kind = "float" /\ proof.v.serializable

\* lines 73-78
Result ==
    [chunk_id |-> chunk_id.v, entropy |-> entropy.v.val,
     commitment |-> hex(commitment.v), proof |-> proof.v]

\* the members are printed one by one, before the whole result is known to
\* serialize
Emit_PrintFirst ==
    /\ pc = "emit"
    /\ IF CanSerialize
       THEN /\ events' = Append(events, "emit")
            /\ stdout' = Append(stdout, json_dumps(Result))
            /\ ProcessExit(0, entropy_task)
            /\ UNCHANGED stderr
       ELSE /\ events' = Append(events, "serialize_raised")
            /\ stdout' = Append(stdout, << <<"chunk_id", <<"string", chunk_id.v>> >> >>)
            /\ RaiseInTry(Exception("not JSON serializable"), stderr, entropy_task)
    /\ UNCHANGED <<argv, chunk_b64, chunk_id, chunk_bytes, matrix, density,
                   vector, zkp, commitment, proof, entropy>>

\* lines 73-80, then main() returns and the process ends with status 0
Emit ==
    /\ pc = "emit"
    /\ IF CanSerialize
       THEN /\ events' = Append(events, "emit")
            /\ stdout' = Append(stdout, json_dumps(Result))
            /\ ProcessExit(0, entropy_task)
            /\ UNCHANGED stderr
       ELSE /\ events' = Append(events, "serialize_raised")
            /\ RaiseInTry(Exception(IF entropy.v.kind = "float"
                                    THEN "not JSON serializable"
                                    ELSE "float() argument"),
                          stderr, entropy_task)
            /\ UNCHANGED stdout
    /\ UNCHANGED <<argv, chunk_b64, chunk_id, chunk_bytes, matrix, density,
                   vector, zkp, commitment, proof, entropy>>

Next ==
    \/ CheckArgs
    \/ Decode
    \/ CheckSize
    \/ Encode
    \/ EncodeRaise
    \/ CreateTask
    \/ ProveStart
    \/ ProveSuspend
    \/ ProveResume
    \/ ProveReturn
    \/ ProveRaise
    \/ EntropyReturn
    \/ EntropyRaise
    \/ AwaitEntropy
    \/ Emit

Spec == Init /\ [][Next]_vars

\* ------------------------------------------ chunk_to_density on its own
\* byte values of the chunks
ByteVals == {0, 1, 255}

\* n bytes, each equal to b
Uniform(n, b) == [zeros |-> 0, data |-> [i \in 1..n |-> b]]

\* byte values of the longer chunks, made of one repeated byte
UniformVals == {0, 1}

\* the chunks handed to chunk_to_density
Chunks ==
    {[zeros |-> 0, data |-> d] : d \in SeqsUpTo(ByteVals, MaxLen)}
    \cup {Uniform(n, b) : n \in 1..MaxUniformLen, b \in UniformVals}

InitEnc ==
    /\ argv = <<ProgName>>
    /\ pc = "enc_call"
    /\ Locals0

\* the call chunk_to_density(chunk_bytes)
EncCall ==
    /\ pc = "enc_call"
    /\ \E c \in Chunks : chunk_bytes' = Some(c)
    /\ pc' = "enc_fill"
    /\ UNCHANGED <<argv, chunk_b64, chunk_id, matrix, density, entropy_task,
                   vector, zkp, commitment, proof, entropy, stdout, stderr,
                   exit_code, events>>

\* lines 15-26
EncFill ==
    /\ pc = "enc_fill"
    /\ matrix' = Some(FillMatrix(chunk_bytes.v))
    /\ pc' = "enc_norm"
    /\ UNCHANGED <<argv, chunk_b64, chunk_id, chunk_bytes, density, entropy_task,
                   vector, zkp, commitment, proof, entropy, stdout, stderr,
                   exit_code, events>>

\* lines 29-35
EncNormalize ==
    /\ pc = "enc_norm"
    /\ density' = Some(Normalize(matrix.v))
    /\ pc' = "enc_done"
    /\ UNCHANGED <<argv, chunk_b64, chunk_id, chunk_bytes, matrix, entropy_task,
                   vector, zkp, commitment, proof, entropy, stdout, stderr,
                   exit_code, events>>

NextEnc ==
    \/ EncCall
    \/ EncFill
    \/ EncNormalize

SpecEnc == InitEnc /\ [][NextEnc]_vars

\* ================================================================ claims
\* the stage e has happened in this run
Happened(e) == \E i \in 1..Len(events) : events[i] = e

\* the first position of e in events
FirstIndex(e) == CHOOSE i \in 1..Len(events) : events[i] = e /\ \A j \in 1..(i - 1) : events[j] # e

\* the sum of the diagonal entries of the result (before the division by norm)
DiagSum(d) == SumCells(d.cells, {p \in DOMAIN d.cells : p[1] = p[2]})

\* chunk_to_density has returned for a non-empty chunk
EncodedNonEmpty == pc = "enc_done" /\ BytesLen(chunk_bytes.v) > 0

\* C1: for every non-empty chunk the divisor of the normalization is
\* strictly positive and the diagonal of the result sums to exactly 1 (the
\* undivided diagonal sums to the divisor)
C1_TraceIsOne ==
    EncodedNonEmpty =>
        /\ density.v.norm > 0
        /\ DiagSum(density.v) = density.v.norm

\* C1 witness: a chunk whose diagonal bytes are zero and whose other bytes
\* are not has gone through the perturbation
C1_Witness ==
    /\ pc = "enc_done"
    /\ chunk_bytes.v.data = <<0, 1, 255, 0>>
    /\ density.v.norm = 2 * Eps

\* C2: chunk_to_density is never called with a chunk of length 0
C2_NoEmptyChunkEncoded ==
    Happened("encode") => BytesLen(chunk_bytes.v) > 0

\* no part of the numeric or cryptographic work has been started
NothingStarted ==
    /\ density = None
    /\ entropy_task.state = "none"
    /\ zkp.state = "none"
    /\ ~Happened("encode") /\ ~Happened("create_task") /\ ~Happened("prove")

\* C3: a run that ends with a usage, base64 or size error has started neither
\* the density matrix nor the entropy nor the proof, and a usage error comes
\* before base64 decoding
C3_FailFast ==
    /\ exit_code \in {1, 3, 4} => NothingStarted
    /\ exit_code = 1 => ~Happened("decode") /\ chunk_bytes = None

\* C3 witness: a chunk of 10,000,001 bytes has been rejected
C3_Witness ==
    /\ exit_code = 4
    /\ BytesLen(chunk_bytes.v) = MaxChunkBytes + 1

\* a stage of lines 59-80 has raised
SomeStageRaised ==
    \/ Happened("encode_raised")
    \/ Happened("entropy_raised")
    \/ Happened("proof_raised")
    \/ Happened("serialize_raised")

\* the exit code the claim assigns to the run
ClaimedExitCode ==
    IF Len(argv) # 3 THEN 1
    ELSE IF ~b64decode(argv[2]).ok THEN 3
    ELSE IF BytesLen(b64decode(argv[2]).bytes) > MaxChunkBytes THEN 4
    ELSE IF SomeStageRaised THEN 2
    ELSE 0

\* C4: the exit code is fixed by the first failing stage: 1 wrong argument
\* count, else 3 base64 failure, else 4 more than 10,000,000 bytes, else 2 a
\* stage raised, else 0
C4_ExitCode ==
    pc = "exited" => exit_code = ClaimedExitCode

\* C4 witness: a chunk of exactly 10,000,000 bytes has been accepted and the
\* run has ended with 0
C4_Witness ==
    /\ exit_code = 0
    /\ BytesLen(chunk_bytes.v) = MaxChunkBytes

\* C5: stdout is written at most once, only in a run that exits with 0, with
\* one JSON object of chunk_id (argv[2] as given), entropy, commitment and
\* proof; a run that exits with another code leaves stdout empty and has
\* written to stderr
C5_NoPartialOutput ==
    /\ Len(stdout) <= 1
    /\ stdout # <<>> =>
          /\ exit_code = 0
          /\ Len(stdout[1]) = 4
          /\ stdout[1][1] = <<"chunk_id", <<"string", argv[3]>> >>
          /\ stdout[1][2][1] = "entropy"
          /\ stdout[1][3][1] = "commitment"
          /\ stdout[1][4][1] = "proof"
    /\ exit_code \in 1..4 => stdout = <<>> /\ stderr # <<>>

\* C5 witness: a run has failed in serialization, after both branches were
\* done
C5_Witness ==
    /\ exit_code = 2
    /\ Happened("serialize_raised")
    /\ proof.v.serializable = FALSE

\* C6: the result is emitted only after both branches have completed, and it
\* carries the values the two branches produced from the one density matrix
C6_JoinBarrier ==
    stdout # <<>> =>
        /\ entropy_task.state = "done" /\ entropy_task.awaited
        /\ zkp.state = "done"
        /\ entropy_task.arg = density
        /\ vector = Some(flatten(density.v))
        /\ stdout[1][2][2] = <<"number", entropy_task.result.v.val>>
        /\ stdout[1][3][2] = <<"string", hex(commitment.v)>>
        /\ stdout[1][4][2] = <<"object", proof.v.body>>

\* C6 witness: a result has been emitted in a run where the entropy task ran
\* while the proof was suspended
C6_Witness ==
    /\ stdout # <<>>
    /\ Happened("prove_suspended")
    /\ commitment.v = <<171, 205>>

\* C7: main() never reports a failure and exits while the entropy task has
\* been created but not awaited
C7_OtherBranchAwaited ==
    (exit_code = 2 /\ entropy_task.state # "none") => entropy_task.awaited

\* the message of the last line of stderr
Reported == stderr[Len(stderr)]

\* C8 as stated: for 16 bytes 0x01 the matrix is 4x4, the divisor is 16 and
\* every entry is 1/16
C8_EveryEntryOneSixteenth ==
    (pc = "enc_done" /\ chunk_bytes.v = Uniform(16, 1)) =>
        /\ density.v.size = 4
        /\ density.v.norm = 16 * Unit
        /\ \A r, c \in 0..3 : 16 * Entry(density.v, r, c) = density.v.norm

\* C8 amended: for 16 bytes 0x01 the matrix is 4x4, the divisor is the trace
\* 4 and every entry is 1/4
C8_EveryEntryOneQuarter ==
    (pc = "enc_done" /\ chunk_bytes.v = Uniform(16, 1)) =>
        /\ density.v.size = 4
        /\ density.v.norm = 4 * Unit
        /\ \A r, c \in 0..3 : 4 * Entry(density.v, r, c) = density.v.norm

\* C8 witness: the chunk of 16 bytes 0x01 has been encoded
C8_Witness ==
    /\ pc = "enc_done"
    /\ chunk_bytes.v = Uniform(16, 1)
    /\ density.v.size = 4

\* C9: when both branches have failed, the error reported is the one of the
\* branch that failed first
C9_FirstFailureReported ==
    (pc = "exited" /\ Happened("entropy_raised") /\ Happened("proof_raised")) =>
        IF FirstIndex("entropy_raised") < FirstIndex("proof_raised")
        THEN Reported = ErrorLine("entropy failure")
        ELSE Reported = ErrorLine("proof failure")

\* C10: for a non-empty chunk of length n the matrix before normalization has
\* side ceil(sqrt(n)), holds byte r*size+c at (r, c) when r*size+c < n and 0
\* elsewhere, and every byte has a cell of its own
C10_Placement ==
    (matrix # None /\ BytesLen(chunk_bytes.v) > 0) =>
        LET n == BytesLen(chunk_bytes.v)
            size == matrix.v.size
        IN  /\ size * size >= n
            /\ (size - 1) * (size - 1) < n
            /\ \A r, c \in 0..(size - 1) :
                  Entry(matrix.v, r, c) =
                      IF r * size + c < n THEN ByteAt(chunk_bytes.v, r * size + c) * Unit
                      ELSE 0
            /\ Cardinality(DOMAIN matrix.v.cells) = n

\* C10 witness: a chunk of 5 bytes has been placed in a 3x3 matrix whose last
\* four cells stay 0
C10_Witness ==
    /\ pc = "enc_norm"
    /\ chunk_bytes.v.data = <<1, 255, 0, 255, 1>>
    /\ matrix.v.size = 3

====
